---------------------------- MODULE Spec2Model ----------------------------
(***************************************************************************)
(* The packages.electronjs.org redirect worker (src/src/index.ts) and its  *)
(* earlier variant (src/unnamed/part_000).                                 *)
(*                                                                         *)
(* Strings are sequences of one-character strings.  JavaScript values that *)
(* can be null / undefined / a string are records [t, s].  Every await of  *)
(* the handler is one action: the awaited operation takes effect and the   *)
(* code runs on to the next await or to the return.                        *)
(***************************************************************************)
EXTENDS Naturals, Sequences, FiniteSets

VARIABLES
    kv,     \* env.KV: key -> entry [present, value, ttl]
    h       \* one record per request slot: the local state of a fetch() call

vars == <<kv, h>>

---------------------------------------------------------------------------
(* Bounds of the model *)

\* number of request slots (fetch invocations that can exist side by side)
NumReqs == 2

\* longest path, in tokens after the leading "/", tried on the path matcher
MaxTokens == 5

\* longest package name and longest version, in pieces, of the redirect
\* targets fed back to the path matcher
MaxPieces == 2

Reqs == 1..NumReqs

---------------------------------------------------------------------------
(* JavaScript values *)

Null == [t |-> "null", s |-> <<>>]
Undefined == [t |-> "undefined", s |-> <<>>]
Str(s) == [t |-> "string", s |-> s]

\* if (version), if (!version), if (npmVersion)
Truthy(v) == v.t = "string" /\ v.s # <<>>

\* `${version}` inside a template literal
ToString(v) ==
    CASE v.t = "null" -> <<"n", "u", "l", "l">>
      [] v.t = "undefined" -> <<"u", "n", "d", "e", "f", "i", "n", "e", "d">>
      [] OTHER -> v.s

---------------------------------------------------------------------------
(* String literals of the source *)

Slash == <<"/">>
Latest == <<"l", "a", "t", "e", "s", "t">>
SlashLatest == Slash \o Latest
Asar == <<"a", "s", "a", "r">>
V401 == <<"4", ".", "0", ".", "1">>
IndexHtml == <<"/", "i", "n", "d", "e", "x", ".", "h", "t", "m", "l">>
Origin ==
    <<"h", "t", "t", "p", "s", ":", "/", "/", "p", "a", "c", "k", "a", "g", "e", "s", ".",
      "e", "l", "e", "c", "t", "r", "o", "n", "j", "s", ".", "o", "r", "g">>
ExpirationTtl == 600
Found == 302

---------------------------------------------------------------------------
\* Path matcher: pathname.match(R), R = ^\/([^\/]+)(?:\/latest(\/.* )?|\/?)?$

IsPrefix(p, s) == Len(p) <= Len(s) /\ SubSeq(s, 1, Len(p)) = p

\* variant: anything may follow /latest, as in ^\/([^\/]+)(?:\/latest.*|\/?)?$
TailMatches_AnyAfterLatest(t) ==
    \/ t = <<>>
    \/ t = Slash
    \/ IsPrefix(SlashLatest, t)

\* variant: any sub-path is taken, as in ^\/([^\/]+)(\/.* )?$
TailMatches_AnyRest(t) == t = <<>> \/ t[1] = "/"

\* The part of R after group 1, applied to the rest of the path.  A pathname
\* holds no line terminator, so the dot-star takes any rest.
TailMatches(t) ==
    \/ t = <<>>
    \/ t = Slash
    \/ /\ IsPrefix(SlashLatest, t)
       /\ \/ Len(t) = Len(SlashLatest)
          \/ t[Len(SlashLatest) + 1] = "/"

\* the positions at which group 1, [^\/]+, may end so that the rest matches
NameEnds(path) ==
    {i \in 2..Len(path) :
        /\ \A k \in 2..i : path[k] # "/"
        /\ TailMatches(SubSeq(path, i + 1, Len(path)))}

MaxOf(S) == CHOOSE x \in S : \A y \in S : y <= x

NoMatch == [matched |-> FALSE, name |-> <<>>]

\* match (null or not) and match[1]; + is greedy, so group 1 ends at the
\* last position that lets the whole expression match
PathMatch(path) ==
    IF Len(path) >= 1 /\ path[1] = "/" /\ NameEnds(path) # {}
    THEN [matched |-> TRUE, name |-> SubSeq(path, 2, MaxOf(NameEnds(path)))]
    ELSE NoMatch

---------------------------------------------------------------------------
(* URLs: the fields of a URL object the handler touches.  A pathname as   *)
(* the URL parser leaves it has no "?" and no "#", and the parser changes  *)
(* no segment other than "." and "..", which no path below contains.       *)

NoUrl == [pathname |-> <<>>, query |-> Null, hash |-> Null]

IndexOf(s, chars) ==
    IF \E i \in 1..Len(s) : s[i] \in chars
    THEN CHOOSE i \in 1..Len(s) : s[i] \in chars /\ \A k \in 1..(i - 1) : s[k] \notin chars
    ELSE Len(s) + 1

\* new URL(path, "https://packages.electronjs.org") for a path that starts
\* with "/": the fragment starts at the first "#", the query at the first
\* "?" before it, the pathname is what comes before both
NewUrl(path) ==
    LET hashAt == IndexOf(path, {"#"})
        noHash == SubSeq(path, 1, hashAt - 1)
        queryAt == IndexOf(noHash, {"?"})
    IN  [pathname |-> SubSeq(noHash, 1, queryAt - 1),
         query |-> IF queryAt <= Len(noHash)
                   THEN Str(SubSeq(noHash, queryAt + 1, Len(noHash)))
                   ELSE Null,
         hash |-> IF hashAt <= Len(path)
                  THEN Str(SubSeq(path, hashAt + 1, Len(path)))
                  ELSE Null]

\* url.search: "" for a null or empty query, else "?" and the query
SearchGet(u) == IF Truthy(u.query) THEN <<"?">> \o u.query.s ELSE <<>>

\* url.search = value: "" clears the query, a leading "?" is dropped
SearchSet(u, value) ==
    IF value = <<>>
    THEN [u EXCEPT !.query = Null]
    ELSE [u EXCEPT !.query = Str(IF value[1] = "?" THEN Tail(value) ELSE value)]

\* url.toString()
Href(u) ==
    Origin \o u.pathname
        \o (IF u.query.t = "string" THEN <<"?">> \o u.query.s ELSE <<>>)
        \o (IF Truthy(u.hash) THEN <<"#">> \o u.hash.s ELSE <<>>)

---------------------------------------------------------------------------
(* Responses *)

NoResponse == [kind |-> "none", status |-> 0, location |-> <<>>, fwd |-> NoUrl]

\* Response.redirect(href, 302)
Redirect(href) ==
    [kind |-> "redirect", status |-> Found, location |-> href, fwd |-> NoUrl]

\* Response.redirect("https://packages.electronjs.org", 302): the URL is
\* parsed and serialized, which gives the empty path its "/"
RootRedirect == Redirect(Origin \o Slash)

\* what fetch(request) resolves to: the origin's answer to the request
Forwarded(u) == [kind |-> "forward", status |-> 0, location |-> <<>>, fwd |-> u]

\* fetch(request) rejected: the handler's promise rejects
HandlerError == [kind |-> "error", status |-> 0, location |-> <<>>, fwd |-> NoUrl]

\* variant: the line redirectUrl.search = url.search left out
RedirectUrl_DropsQuery(packageName, version, url) ==
    NewUrl(Slash \o packageName \o <<"/", "v">> \o ToString(version) \o IndexHtml)

\* lines 64-70: the redirect target
RedirectUrl(packageName, version, url) ==
    LET redirectPath == Slash \o packageName \o <<"/", "v">> \o ToString(version) \o IndexHtml
    IN  SearchSet(NewUrl(redirectPath), SearchGet(url))

---------------------------------------------------------------------------
(* Inputs *)

PkgB == <<"b">>
V500 == <<"5", ".", "0", ".", "0">>
V510 == <<"5", ".", "1", ".", "0">>
QueryAB == <<"a", "=", "b">>

\* pathnames of the requests the handler is run on
ReqPaths ==
    { Slash,
      Slash \o Slash \o PkgB,
      Slash \o Asar,
      Slash \o Asar \o SlashLatest,
      Slash \o PkgB \o Slash,
      Slash \o PkgB \o SlashLatest \o Slash \o PkgB,
      Slash \o Asar \o Slash \o PkgB }

\* pathnames tried on the path matcher: "/" and up to MaxTokens of these
\* pieces after it
Tokens == {Slash, Latest, <<"a">>, <<"l", "a", "t", "e">>}

RECURSIVE Flat(_)
Flat(ts) == IF ts = <<>> THEN <<>> ELSE Head(ts) \o Flat(Tail(ts))

MatchPaths == {Slash \o Flat(ts) : ts \in UNION {[1..k -> Tokens] : k \in 0..MaxTokens}}

\* query components of the request URL: none, "?" alone, "?a=b"
ReqQueries == {Null, Str(<<>>), Str(QueryAB)}

ReqUrls == {[pathname |-> p, query |-> q, hash |-> Null] : p \in ReqPaths, q \in ReqQueries}

Variants == {"index", "part_000"}

\* versions the registry may report
NpmVersions == {V500, V510}

\* the body of a registry response: not JSON, the JSON null, or an object
\* whose version field is absent, empty or a version
Body(json, version) == [json |-> json, version |-> version]
NoBody == Body("object", Undefined)
NpmBodies ==
    {Body("invalid", Undefined), Body("null", Undefined), NoBody, Body("object", Str(<<>>))}
        \cup {Body("object", Str(v)) : v \in NpmVersions}

\* what awaiting fetch(registry URL) may give: a rejection, or a response
\* with its ok flag and body
NoReply == [thrown |-> FALSE, ok |-> FALSE, body |-> NoBody]
NpmReplies ==
    {[thrown |-> TRUE, ok |-> FALSE, body |-> NoBody]}
        \cup {[thrown |-> FALSE, ok |-> TRUE, body |-> b] : b \in NpmBodies}
        \cup {[thrown |-> FALSE, ok |-> FALSE, body |-> b] : b \in {NoBody, Body("object", Str(V500))}}

\* the keys the requests above can touch
KvKeys == {PathMatch(p).name : p \in {q \in ReqPaths : PathMatch(q).matched}} \cup {Asar}

---------------------------------------------------------------------------
(* The key-value store *)

NoEntry == [present |-> FALSE, value |-> <<>>, ttl |-> 0]
Entry(value, ttl) == [present |-> TRUE, value |-> value, ttl |-> ttl]

\* variant: the read misses whatever the store holds
KvValue_NeverFinds(store, key) == Null

\* env.KV.get(key): the value, or null
KvValue(store, key) == IF store[key].present THEN Str(store[key].value) ELSE Null

---------------------------------------------------------------------------
(* The local state of one fetch(request, env) call *)

Idle ==
    [pc |-> "idle", variant |-> "index", url |-> NoUrl, packageName |-> <<>>,
     version |-> Undefined, reply |-> NoReply, npmVersion |-> Undefined,
     response |-> NoResponse, trace |-> <<>>]

\* one awaited operation, as the request performed it
Ev(op, key, val, ttl, ok) == [op |-> op, key |-> key, val |-> val, ttl |-> ttl, ok |-> ok]

Log(s, ev) == [s EXCEPT !.trace = Append(s.trace, ev)]

\* return <response>
Respond(s, resp) == [s EXCEPT !.pc = "done", !.response = resp]

\* variant: no try/catch around the lookup, the handler rejects
Caught_Rethrows(s) == [s EXCEPT !.pc = "done", !.response = HandlerError]

\* variant: a try/catch of its own around the cache read, which carries on
\* with the registry query
Caught_ReadAsMiss(s) ==
    IF s.trace[Len(s.trace)].op = "kv.get"
    THEN [s EXCEPT !.pc = "npm_fetch"]
    ELSE [s EXCEPT !.pc = "fallback"]

\* catch (error) { console.warn(...) }: control leaves the if and reaches
\* the last statement, return fetch(request)
Caught(s) == [s EXCEPT !.pc = "fallback"]

\* index.ts 64-72, part_000 34-42
BuildRedirect(s) == Respond(s, Redirect(Href(RedirectUrl(s.packageName, s.version, s.url))))

\* variant: a path that does not match is passed through
Started_PassThrough(s, match) ==
    IF match.matched
    THEN [s EXCEPT !.packageName = match.name,
                   !.pc = IF s.variant = "part_000" THEN "pre_put" ELSE "kv_get"]
    ELSE [s EXCEPT !.pc = "fallback"]

\* variant: index.ts asks the registry before it reads the cache
Started_RegistryFirst(s, match) ==
    IF match.matched
    THEN [s EXCEPT !.packageName = match.name,
                   !.pc = IF s.variant = "part_000" THEN "pre_put" ELSE "npm_fetch"]
    ELSE Respond(s, RootRedirect)

\* lines 24-27 and 79-81: the match decides between the lookup and the
\* redirect to the root
Started(s, match) ==
    IF match.matched
    THEN [s EXCEPT !.packageName = match.name,
                   !.pc = IF s.variant = "part_000" THEN "pre_put" ELSE "kv_get"]
    ELSE Respond(s, RootRedirect)

\* variant: index.ts queries the registry whatever the cache returned
AfterGet_AlwaysQueries(s) ==
    IF s.variant = "index"
    THEN [s EXCEPT !.pc = "npm_fetch"]
    ELSE IF Truthy(s.version) THEN BuildRedirect(s) ELSE [s EXCEPT !.pc = "fallback"]

\* after version = await env.KV.get(packageName)
AfterGet(s) ==
    IF s.variant = "index"
    THEN IF ~Truthy(s.version) THEN [s EXCEPT !.pc = "npm_fetch"] ELSE BuildRedirect(s)
    ELSE IF Truthy(s.version) THEN BuildRedirect(s) ELSE [s EXCEPT !.pc = "fallback"]

\* variant: a non-success status is answered with another registry call
AfterFetch_Retries(s) ==
    IF s.reply.ok THEN [s EXCEPT !.pc = "json"] ELSE [s EXCEPT !.pc = "npm_fetch"]

\* index.ts 40 and 54-72: after _req = await fetch(...)
AfterFetch(s) == IF s.reply.ok THEN [s EXCEPT !.pc = "json"] ELSE BuildRedirect(s)

\* index.ts 42-53 and 64-72: after data = await _req.json()
AfterJson(s) ==
    IF s.reply.body.json = "null"
    THEN Caught(s)
    ELSE LET t == [s EXCEPT !.npmVersion = s.reply.body.version]
         IN  IF Truthy(t.npmVersion) THEN [t EXCEPT !.pc = "kv_put"] ELSE BuildRedirect(t)

\* variant: the assignment version = npmVersion left out
AfterPut_KeepsVersion(s) == BuildRedirect(s)

\* index.ts 48 and 64-72: after await env.KV.put(...)
AfterPut(s) == BuildRedirect([s EXCEPT !.version = s.npmVersion])

---------------------------------------------------------------------------
(* Actions: one per await of the handler, and the store's expiry *)

Init ==
    /\ kv = [k \in KvKeys |-> NoEntry]
    /\ h = [r \in Reqs |-> Idle]

\* lines 15-27, 79-81: the handler is entered with a request
Begin(r, u, variant) ==
    /\ h[r].pc = "idle"
    /\ h' = [h EXCEPT ![r] = Started([Idle EXCEPT !.variant = variant, !.url = u],
                                     PathMatch(u.pathname))]
    /\ UNCHANGED kv

\* part_000 30: await env.KV.put("asar", "4.0.1")
PrePut(r) ==
    /\ h[r].pc = "pre_put"
    /\ \/ /\ kv' = [kv EXCEPT ![Asar] = Entry(V401, 0)]
          /\ h' = [h EXCEPT ![r] =
                 [Log(h[r], Ev("kv.put", Asar, Str(V401), 0, TRUE)) EXCEPT !.pc = "kv_get"]]
       \/ /\ h' = [h EXCEPT ![r] = Caught(Log(h[r], Ev("kv.put", Asar, Str(V401), 0, FALSE)))]
          /\ UNCHANGED kv

\* index.ts 30, part_000 31: await env.KV.get(packageName)
KvGet(r) ==
    /\ h[r].pc = "kv_get"
    /\ LET s == h[r]
           got == KvValue(kv, s.packageName)
       IN  \/ h' = [h EXCEPT ![r] =
                  AfterGet(Log([s EXCEPT !.version = got],
                               Ev("kv.get", s.packageName, got, 0, TRUE)))]
           \/ h' = [h EXCEPT ![r] = Caught(Log(s, Ev("kv.get", s.packageName, Null, 0, FALSE)))]
    /\ UNCHANGED kv

\* index.ts 36-38: await fetch(`https://registry.npmjs.org/@electron/${packageName}/latest`)
NpmFetch(r) ==
    /\ h[r].pc = "npm_fetch"
    /\ LET s == h[r]
       IN  \E reply \in NpmReplies :
               \/ /\ reply.thrown
                  /\ h' = [h EXCEPT ![r] =
                         Caught(Log(s, Ev("npm.fetch", s.packageName, Null, 0, FALSE)))]
               \/ /\ ~reply.thrown
                  /\ h' = [h EXCEPT ![r] =
                         AfterFetch(Log([s EXCEPT !.reply = reply],
                                        Ev("npm.fetch", s.packageName, Null, 0, TRUE)))]
    /\ UNCHANGED kv

\* index.ts 41-42: await _req.json(), data.version
Json(r) ==
    /\ h[r].pc = "json"
    /\ LET s == h[r]
           body == s.reply.body
       IN  IF body.json = "invalid"
           THEN h' = [h EXCEPT ![r] = Caught(Log(s, Ev("json", s.packageName, Null, 0, FALSE)))]
           ELSE h' = [h EXCEPT ![r] =
                    AfterJson(Log(s, Ev("json", s.packageName, body.version, 0, TRUE)))]
    /\ UNCHANGED kv

\* index.ts 45-47: await env.KV.put(packageName, npmVersion, {expirationTtl: 600})
KvPut(r) ==
    /\ h[r].pc = "kv_put"
    /\ LET s == h[r]
       IN  \/ /\ kv' = [kv EXCEPT ![s.packageName] = Entry(s.npmVersion.s, ExpirationTtl)]
              /\ h' = [h EXCEPT ![r] =
                     AfterPut(Log(s, Ev("kv.put", s.packageName, s.npmVersion, ExpirationTtl, TRUE)))]
           \/ /\ h' = [h EXCEPT ![r] =
                     Caught(Log(s, Ev("kv.put", s.packageName, s.npmVersion, ExpirationTtl, FALSE)))]
              /\ UNCHANGED kv

\* index.ts 83, part_000 56: return fetch(request)
Fallback(r) ==
    /\ h[r].pc = "fallback"
    /\ LET s == h[r]
       IN  \/ h' = [h EXCEPT ![r] =
                  Respond(Log(s, Ev("fallback", <<>>, Null, 0, TRUE)), Forwarded(s.url))]
           \/ h' = [h EXCEPT ![r] =
                  Respond(Log(s, Ev("fallback", <<>>, Null, 0, FALSE)), HandlerError)]
    /\ UNCHANGED kv

\* the call has returned; the slot is free for the next request
Recycle(r) ==
    /\ h[r].pc = "done"
    /\ h' = [h EXCEPT ![r] = Idle]
    /\ UNCHANGED kv

\* the store drops an entry whose time-to-live has run out
Expire(k) ==
    /\ kv[k].present
    /\ kv[k].ttl > 0
    /\ kv' = [kv EXCEPT ![k] = NoEntry]
    /\ UNCHANGED h

\* requests one after the other: a request enters when no other is around
SeqBegin(r) ==
    /\ \A q \in Reqs : h[q].pc = "idle"
    /\ \E u \in ReqUrls, variant \in Variants : Begin(r, u, variant)

Next ==
    \/ \E r \in Reqs :
           \/ SeqBegin(r)
           \/ PrePut(r)
           \/ KvGet(r)
           \/ NpmFetch(r)
           \/ Json(r)
           \/ KvPut(r)
           \/ Fallback(r)
           \/ Recycle(r)
    \/ \E k \in KvKeys : Expire(k)

Spec == Init /\ [][Next]_vars

---------------------------------------------------------------------------
(* The path matcher on its own: requests with any pathname of MatchPaths   *)
(* enter the handler, which runs up to its first await; the environment    *)
(* may drop a call at any point.                                           *)

MatchBegin(r) ==
    /\ \A q \in Reqs : h[q].pc = "idle"
    /\ \E path \in MatchPaths, variant \in Variants :
           Begin(r, [pathname |-> path, query |-> Null, hash |-> Null], variant)

\* the surrounding environment aborts the unit of work.  A call suspended
\* at a cache write (part_000 30, index.ts 45-47) has already called
\* env.KV.put: the write lands or does not
Abort(r) ==
    /\ h[r].pc # "idle"
    /\ h' = [h EXCEPT ![r] = Idle]
    /\ LET s == h[r]
       IN  \/ UNCHANGED kv
           \/ /\ s.pc = "pre_put"
              /\ kv' = [kv EXCEPT ![Asar] = Entry(V401, 0)]
           \/ /\ s.pc = "kv_put"
              /\ kv' = [kv EXCEPT ![s.packageName] = Entry(s.npmVersion.s, ExpirationTtl)]

MatchNext == \E r \in Reqs : MatchBegin(r) \/ Abort(r)

SpecMatch == Init /\ [][MatchNext]_vars

---------------------------------------------------------------------------
(* Vocabulary of the properties *)

\* The recognized shapes, stated on the path itself: /n, /n/, /n/latest and
\* /n/latest/<rest>, for a non-empty segment n without "/".
Segments(path) ==
    {SubSeq(path, 2, i) : i \in {j \in 2..Len(path) : \A k \in 2..j : path[k] # "/"}}

HasShape(path, n) ==
    \/ path = Slash \o n
    \/ path = Slash \o n \o Slash
    \/ path = Slash \o n \o SlashLatest
    \/ IsPrefix(Slash \o n \o SlashLatest \o Slash, path)

Recognized(path) == \E n \in Segments(path) : HasShape(path, n)

NameOf(path) == CHOOSE n \in Segments(path) : HasShape(path, n)

Last(seq) == seq[Len(seq)]

CountOp(trace, op) == Cardinality({i \in DOMAIN trace : trace[i].op = op})

\* the query string of a request URL, without its "?"
QueryString(u) == IF u.query.t = "string" THEN u.query.s ELSE <<>>

\* https://packages.electronjs.org/<p>/v<v>/index.html, with the request's
\* query string when it has one
PackageLocation(p, v, u) ==
    Origin \o Slash \o p \o <<"/", "v">> \o v \o IndexHtml
        \o (IF QueryString(u) # <<>> THEN <<"?">> \o QueryString(u) ELSE <<>>)

RootLocation == Origin \o Slash

IsPackageRedirect(resp) == resp.kind = "redirect" /\ resp.location # RootLocation

Finished(r) == h[r].pc = "done"

\* the cache read returned no version and the registry's answer carries
\* none: a non-success status, or a success body without a usable version
Unresolved(s) ==
    /\ s.variant = "index"
    /\ Len(s.trace) >= 2
    /\ s.trace[1].op = "kv.get" /\ s.trace[1].ok /\ ~Truthy(s.trace[1].val)
    /\ s.trace[2].op = "npm.fetch" /\ s.trace[2].ok
    /\ \/ ~s.reply.ok
       \/ s.reply.body.json # "object"
       \/ ~Truthy(s.reply.body.version)

---------------------------------------------------------------------------
(* C1 .. C3 *)

\* C1: a finished request answers with a package redirect only if a
\* non-empty version string was obtained, from the cache read or from the
\* registry's response, and the redirect is built from that version.
C1_RedirectOnlyWithVersion ==
    \A r \in Reqs :
        (Finished(r) /\ IsPackageRedirect(h[r].response)) =>
            /\ Truthy(h[r].version)
            /\ \E i \in DOMAIN h[r].trace :
                   /\ h[r].trace[i].op \in {"kv.get", "json"}
                   /\ h[r].trace[i].ok
                   /\ h[r].trace[i].val = h[r].version

\* C2: when the cache read returned no version and the registry answered
\* with a non-success status or without a usable version, the finished
\* request is no redirect: the original request went to the fallback origin
\* once, and nothing was written to the cache.
C2_UnresolvedPassesThrough ==
    \A r \in Reqs :
        (Finished(r) /\ Unresolved(h[r])) =>
            /\ h[r].response.kind # "redirect"
            /\ CountOp(h[r].trace, "fallback") = 1
            /\ h[r].response.kind = "forward" => h[r].response.fwd = h[r].url
            /\ CountOp(h[r].trace, "kv.put") = 0

\* C3: when the cache holds p -> v at the moment index.ts reads it for a
\* request whose path names p, the read ends the request with a 302 to
\* https://packages.electronjs.org/p/v<v>/index.html (plus the request's
\* query); the read is the request's only operation (no registry call, no
\* cache write, no fallback call) and the cache is left as it was.
C3_CacheHitRedirects ==
    [][\A r \in Reqs :
          LET s == h[r]
              t == h'[r]
          IN  (/\ s.variant = "index"
               /\ s.pc = "kv_get"
               /\ t.pc # "kv_get"
               /\ Last(t.trace).ok
               /\ kv[NameOf(s.url.pathname)].present) =>
                  LET p == NameOf(s.url.pathname)
                      v == kv[p].value
                  IN  /\ t.pc = "done"
                      /\ t.response = [kind |-> "redirect", status |-> 302,
                                       location |-> PackageLocation(p, v, s.url),
                                       fwd |-> NoUrl]
                      /\ t.trace = <<Ev("kv.get", p, Str(v), 0, TRUE)>>
                      /\ kv' = kv]_vars

\* C3 witness: a request of index.ts finished with a redirect right after a
\* cache read that returned a version
C3_Witness ==
    \E r \in Reqs :
        /\ Finished(r)
        /\ h[r].variant = "index"
        /\ Len(h[r].trace) = 1
        /\ h[r].trace[1].op = "kv.get" /\ Truthy(h[r].trace[1].val)
        /\ h[r].response.kind = "redirect"
        /\ h[r].url.query = Str(QueryAB)

---------------------------------------------------------------------------
(* C4 .. C7 *)

\* the cache read returned no version and the registry answered with
\* success and a body whose version field is a non-empty string
Resolved(s) ==
    /\ s.variant = "index"
    /\ Len(s.trace) >= 2
    /\ s.trace[1].op = "kv.get" /\ s.trace[1].ok /\ ~Truthy(s.trace[1].val)
    /\ s.trace[2].op = "npm.fetch" /\ s.trace[2].ok
    /\ s.reply.ok
    /\ s.reply.body.json = "object"
    /\ Truthy(s.reply.body.version)

PutThrew(s) == \E i \in DOMAIN s.trace : s.trace[i].op = "kv.put" /\ ~s.trace[i].ok

\* what C4 promises of a request that ends after a registry answer with
\* version v: the 302 to /p/v<v>/index.html, p -> v in the cache with a
\* time-to-live of 600 seconds, no fallback call
RedirectedAndCached(t, store) ==
    LET p == NameOf(t.url.pathname)
        v == t.reply.body.version.s
    IN  /\ t.response = [kind |-> "redirect", status |-> 302,
                         location |-> PackageLocation(p, v, t.url), fwd |-> NoUrl]
        /\ store[p] = [present |-> TRUE, value |-> v, ttl |-> 600]
        /\ CountOp(t.trace, "fallback") = 0

\* C4 as stated: every request of index.ts that found no cache entry and
\* got version v from the registry ends with the 302 to /p/v<v>/index.html,
\* the cache then holding p -> v with a 600-second time-to-live, and no
\* fallback call.
C4_AsStated ==
    [][\A r \in Reqs :
          (h[r].pc # "done" /\ h'[r].pc = "done" /\ Resolved(h'[r])) =>
              RedirectedAndCached(h'[r], kv')]_vars

\* C4 amended: the same, provided the cache write of p -> v does not throw;
\* when it throws, the request ends in the fallback call instead, with no
\* redirect.
C4_ResolvedRedirectsAndCaches ==
    [][\A r \in Reqs :
          (h[r].pc # "done" /\ h'[r].pc = "done" /\ Resolved(h'[r])) =>
              IF PutThrew(h'[r])
              THEN /\ h'[r].response.kind \in {"forward", "error"}
                   /\ CountOp(h'[r].trace, "fallback") = 1
              ELSE RedirectedAndCached(h'[r], kv')]_vars

\* C4 witness: a request finished with a redirect after a cache miss, a
\* registry answer with a version and a cache write, the entry in the cache
C4_Witness ==
    \E r \in Reqs :
        /\ Finished(r)
        /\ Resolved(h[r])
        /\ ~PutThrew(h[r])
        /\ h[r].response.kind = "redirect"
        /\ kv[h[r].packageName] = Entry(V510, ExpirationTtl)

\* C5: a request whose path has none of the recognized shapes is answered
\* at once with a 302 to the service root, with no cache read, cache write,
\* registry call or fallback call.
C5_NoMatchRedirectsToRoot ==
    \A r \in Reqs :
        (h[r].pc # "idle" /\ ~Recognized(h[r].url.pathname)) =>
            /\ h[r].pc = "done"
            /\ h[r].response = [kind |-> "redirect", status |-> 302,
                                location |-> RootLocation, fwd |-> NoUrl]
            /\ h[r].trace = <<>>

\* C5 witness: a request with an empty first segment, answered
C5_Witness ==
    \E r \in Reqs :
        /\ Finished(r)
        /\ h[r].url.pathname = Slash \o Slash \o PkgB
        /\ h[r].response.location = RootLocation

\* C6: the matcher agrees with the recognized shapes on every path: a path
\* /n, /n/, /n/latest or /n/latest/<rest> gives package name n and goes on
\* to the lookup, any other path gives no match and the root redirect.
C6_MatcherAgreesWithShapes ==
    \A r \in Reqs :
        h[r].pc # "idle" =>
            IF Recognized(h[r].url.pathname)
            THEN /\ h[r].pc \in {"kv_get", "pre_put"}
                 /\ h[r].packageName = NameOf(h[r].url.pathname)
            ELSE /\ h[r].pc = "done"
                 /\ h[r].response.location = RootLocation
                 /\ h[r].packageName = <<>>

\* C6 witness: /latest/latest/late matched with package name "latest"
C6_Witness ==
    \E r \in Reqs :
        /\ h[r].url.pathname = Slash \o Latest \o SlashLatest \o Slash \o <<"l", "a", "t", "e">>
        /\ h[r].packageName = Latest
        /\ h[r].pc = "kv_get"

\* the part of a location after its first "?", and the part before it
LocationQuery(loc) == SubSeq(loc, IndexOf(loc, {"?"}) + 1, Len(loc))
LocationPath(loc) == SubSeq(loc, 1, IndexOf(loc, {"?"}) - 1)

\* C7: the query string of every package redirect is the query string of
\* the request, and what comes before it is built from the package name of
\* the path and the version alone.
C7_QueryPreserved ==
    \A r \in Reqs :
        (Finished(r) /\ IsPackageRedirect(h[r].response)) =>
            /\ LocationQuery(h[r].response.location) = QueryString(h[r].url)
            /\ LocationPath(h[r].response.location) =
                   Origin \o Slash \o NameOf(h[r].url.pathname) \o <<"/", "v">>
                       \o ToString(h[r].version) \o IndexHtml

\* C7 witness: a redirect to a version the registry gave, for a request
\* with the query a=b
C7_Witness ==
    \E r \in Reqs :
        /\ Finished(r)
        /\ Resolved(h[r])
        /\ h[r].response.kind = "redirect"
        /\ h[r].url.query = Str(QueryAB)
        /\ LocationQuery(h[r].response.location) = QueryAB

---------------------------------------------------------------------------
(* C8 .. C10 *)

\* the next step of the call in slot r
Step(r) ==
    PrePut(r) \/ KvGet(r) \/ NpmFetch(r) \/ Json(r) \/ KvPut(r) \/ Fallback(r)

\* a failure inside the resolution path: a cache read, registry fetch, body
\* parse or cache write that threw, or a body that parsed to null
ResolutionFailed(s) ==
    \/ \E i \in DOMAIN s.trace : s.trace[i].op # "fallback" /\ ~s.trace[i].ok
    \/ \E i \in DOMAIN s.trace : s.trace[i].op = "json" /\ s.reply.body.json = "null"

\* C8: whatever fails inside the resolution path, the call goes on to a
\* single response, a 302 or the forwarded request's response: a failure
\* leaves the call at the fallback call, which is made once, with the
\* original request, and no redirect follows; the handler itself ends in an
\* error only when that fallback call is the one that fails.
C8_FailuresDegradeToPassThrough ==
    \A r \in Reqs :
        LET s == h[r]
        IN  /\ s.pc \notin {"idle", "done"} => ENABLED Step(r)
            /\ s.pc = "done" <=> s.response # NoResponse
            /\ ResolutionFailed(s) => s.pc \in {"fallback", "done"}
            /\ Finished(r) =>
                   /\ s.response.kind \in {"redirect", "forward", "error"}
                   /\ s.response.kind = "redirect" => s.response.status = 302
                   /\ s.response.kind = "error" =>
                          Last(s.trace).op = "fallback" /\ ~Last(s.trace).ok
                   /\ ResolutionFailed(s) =>
                          /\ s.response.kind # "redirect"
                          /\ CountOp(s.trace, "fallback") = 1
                          /\ Last(s.trace).op = "fallback"
                          /\ Last(s.trace).ok =>
                                 s.response = [kind |-> "forward", status |-> 0,
                                               location |-> <<>>, fwd |-> s.url]

\* C8 witness: a request forwarded after its cache write threw
C8_Witness ==
    \E r \in Reqs :
        /\ Finished(r)
        /\ PutThrew(h[r])
        /\ h[r].response.kind = "forward"

ReadThrew(s) == \E i \in DOMAIN s.trace : s.trace[i].op = "kv.get" /\ ~s.trace[i].ok

\* C9 as stated: in index.ts a cache read that throws is treated as a miss,
\* so the request goes on to query the registry.
C9_AsStated ==
    \A r \in Reqs :
        (Finished(r) /\ h[r].variant = "index" /\ ReadThrew(h[r])) =>
            CountOp(h[r].trace, "npm.fetch") = 1

\* C9 amended: a cache read that throws is caught and sends the request
\* straight to pass-through: the registry is not queried and no version is
\* adopted or written, whatever the registry would have answered; the
\* fallback call is the only operation after the read.
C9_ReadFailurePassesThrough ==
    \A r \in Reqs :
        LET s == h[r]
        IN  ReadThrew(s) =>
                /\ s.pc \in {"fallback", "done"}
                /\ CountOp(s.trace, "npm.fetch") = 0
                /\ \A i \in DOMAIN s.trace : s.trace[i].op = "kv.put" => s.trace[i].ttl = 0
                /\ ~Truthy(s.version)
                /\ Finished(r) =>
                       /\ s.response.kind \in {"forward", "error"}
                       /\ Last(s.trace).op = "fallback"
                       /\ s.trace[Len(s.trace) - 1].op = "kv.get"

\* C9 witness: a request of index.ts forwarded right after its cache read
\* threw
C9_Witness ==
    \E r \in Reqs :
        /\ Finished(r)
        /\ h[r].variant = "index"
        /\ Len(h[r].trace) = 2
        /\ h[r].trace[1].op = "kv.get" /\ ~h[r].trace[1].ok
        /\ h[r].trace[2].op = "fallback"
        /\ h[r].response.kind = "forward"

\* C10: a request makes at most one cache read, one cache write and one
\* registry call; it makes exactly one fallback call when it ends in
\* pass-through and none when it ends in a redirect.
C10_AtMostOnce ==
    \A r \in Reqs :
        LET s == h[r]
        IN  /\ CountOp(s.trace, "kv.get") <= 1
            /\ CountOp(s.trace, "kv.put") <= 1
            /\ CountOp(s.trace, "npm.fetch") <= 1
            /\ CountOp(s.trace, "fallback") <= 1
            /\ (Finished(r) /\ s.response.kind = "redirect") =>
                   CountOp(s.trace, "fallback") = 0
            /\ (Finished(r) /\ s.response.kind # "redirect") =>
                   CountOp(s.trace, "fallback") = 1

\* C10 witness: a pass-through after one read, one registry call and one
\* cache write
C10_Witness ==
    \E r \in Reqs :
        /\ Finished(r)
        /\ h[r].response.kind = "forward"
        /\ CountOp(h[r].trace, "kv.get") = 1
        /\ CountOp(h[r].trace, "npm.fetch") = 1
        /\ CountOp(h[r].trace, "kv.put") = 1
        /\ CountOp(h[r].trace, "fallback") = 1

---------------------------------------------------------------------------
(* C11 *)

\* the step of slot r is a cache write: it adds a kv.put to the trace
Writes(s, t) == Len(t.trace) = Len(s.trace) + 1 /\ Last(t.trace).op = "kv.put"

\* the registry answered this request with success and version val
RegistryGave(s, val) ==
    /\ Truthy(val)
    /\ s.reply.ok
    /\ s.reply.body.json = "object"
    /\ s.reply.body.version = val
    /\ \E j \in DOMAIN s.trace : s.trace[j].op = "npm.fetch" /\ s.trace[j].ok

\* C11: in both variants every cache write comes from a registry answer of
\* the same request: a request writes only its own package name, and only
\* a version the registry returned to it with success; and the store takes
\* a new entry only through such a write.
C11_WritesOnlyFromRegistry ==
    [][/\ \A r \in Reqs :
              Writes(h[r], h'[r]) =>
                  /\ Last(h'[r].trace).key = h[r].packageName
                  /\ RegistryGave(h[r], Last(h'[r].trace).val)
       /\ \A k \in KvKeys :
              (kv'[k] # kv[k] /\ kv'[k].present) =>
                  \E r \in Reqs :
                      /\ Writes(h[r], h'[r])
                      /\ h[r].packageName = k
                      /\ RegistryGave(h[r], Str(kv'[k].value))]_vars

---------------------------------------------------------------------------
(* C12 *)
(* The same request handled twice by index.ts, the second call entering    *)
(* when the first has returned; nothing else touches the store between     *)
(* the two, and no entry expires.  Slot 1 holds the first call and slot 2  *)
(* the second; when both have returned the next pair starts on the store   *)
(* they left.                                                              *)

TwiceFirst ==
    /\ \A q \in Reqs : h[q].pc = "idle"
    /\ \E u \in ReqUrls : Begin(1, u, "index")

TwiceRepeat ==
    /\ h[1].pc = "done"
    /\ Begin(2, h[1].url, h[1].variant)

TwiceReturn ==
    /\ h[1].pc = "done"
    /\ h[2].pc = "done"
    /\ h' = [r \in Reqs |-> Idle]
    /\ UNCHANGED kv

TwiceNext ==
    \/ TwiceFirst
    \/ TwiceRepeat
    \/ TwiceReturn
    \/ \E r \in Reqs : KvGet(r) \/ NpmFetch(r) \/ Json(r) \/ KvPut(r) \/ Fallback(r)

SpecTwice == Init /\ [][TwiceNext]_vars

Has(s, op) == \E i \in DOMAIN s.trace : s.trace[i].op = op

OkOf(s, op) == s.trace[CHOOSE i \in DOMAIN s.trace : s.trace[i].op = op].ok

\* the collaborators answered the second call as they answered the first:
\* every operation both calls made threw in both or in neither, and the
\* registry, where both asked it, gave the same response
SameAnswers(a, b) ==
    /\ \A op \in {"kv.get", "npm.fetch", "json", "kv.put", "fallback"} :
           (Has(a, op) /\ Has(b, op)) => OkOf(a, op) = OkOf(b, op)
    /\ (Has(a, "npm.fetch") /\ Has(b, "npm.fetch")) => a.reply = b.reply

\* C12: the same request handled twice in a row, the collaborators
\* answering alike, gets the same response both times (the same redirect
\* target, or pass-through both times); the second call writes nothing to
\* the cache, and makes no write at all when the first call wrote.
C12_SecondHandlingAgrees ==
    (h[1].pc = "done" /\ h[2].pc = "done" /\ SameAnswers(h[1], h[2])) =>
        /\ h[2].url = h[1].url
        /\ h[2].response = h[1].response
        /\ \A i \in DOMAIN h[2].trace : h[2].trace[i].op = "kv.put" => ~h[2].trace[i].ok
        /\ (Has(h[1], "kv.put") /\ OkOf(h[1], "kv.put")) => ~Has(h[2], "kv.put")
        /\ (Has(h[1], "kv.put") /\ OkOf(h[1], "kv.put")) =>
               kv[h[1].packageName] = Entry(h[1].npmVersion.s, 600)

\* C12 witness: the first call resolved through the registry and wrote the
\* cache, the second was answered from the cache, with the same redirect
C12_Witness ==
    /\ h[1].pc = "done"
    /\ h[2].pc = "done"
    /\ Has(h[1], "kv.put") /\ OkOf(h[1], "kv.put")
    /\ Len(h[2].trace) = 1
    /\ h[2].response.kind = "redirect"
    /\ h[2].response = h[1].response

---------------------------------------------------------------------------
(* C13 .. C15 *)

\* C13: every entry the handler writes carries the 600-second time-to-live,
\* so that no entry stays for ever; a request answered from the cache
\* writes nothing; and a request of index.ts that finds no entry (never
\* written, or expired) asks the registry next.
C13_EveryEntryExpires ==
    /\ \A k \in KvKeys : kv[k].present => kv[k].ttl = 600
    /\ \A r \in Reqs :
           LET s == h[r]
           IN  /\ \A i \in DOMAIN s.trace : s.trace[i].op = "kv.put" => s.trace[i].ttl = 600
               /\ \A i \in DOMAIN s.trace :
                      (s.trace[i].op = "kv.get" /\ Truthy(s.trace[i].val)) =>
                          \A j \in DOMAIN s.trace : s.trace[j].op # "kv.put"
               /\ (/\ s.variant = "index"
                   /\ Len(s.trace) >= 2
                   /\ s.trace[1].op = "kv.get" /\ s.trace[1].ok /\ ~Truthy(s.trace[1].val)) =>
                      s.trace[2].op = "npm.fetch"

\* the operation at position i of the trace of a call of index.ts stands
\* where the order of the steps allows it
InOrder(s, i) ==
    LET e == s.trace[i]
    IN  CASE e.op = "kv.get" ->
                 /\ i = 1
                 /\ Recognized(s.url.pathname)
                 /\ e.key = NameOf(s.url.pathname)
          [] e.op = "npm.fetch" ->
                 /\ i = 2
                 /\ s.trace[1].op = "kv.get" /\ s.trace[1].ok /\ ~Truthy(s.trace[1].val)
          [] e.op = "json" ->
                 /\ i = 3
                 /\ s.trace[2].op = "npm.fetch" /\ s.trace[2].ok /\ s.reply.ok
          [] e.op = "kv.put" ->
                 /\ i = 4
                 /\ s.trace[3].op = "json" /\ s.trace[3].ok
                 /\ s.reply.ok /\ Truthy(s.trace[3].val)
                 /\ e.val = s.trace[3].val /\ e.key = s.trace[1].key
          [] e.op = "fallback" ->
                 /\ i = Len(s.trace)
                 /\ i > 1
                 /\ \A j \in 1..(i - 1) : s.trace[j].op # "fallback"
          [] OTHER -> FALSE

\* the step the call waits for is the one that follows its last operation
Waiting(s) ==
    CASE s.pc = "kv_get" -> s.trace = <<>> /\ Recognized(s.url.pathname)
      [] s.pc = "npm_fetch" -> Len(s.trace) = 1
      [] s.pc = "json" -> Len(s.trace) = 2
      [] s.pc = "kv_put" -> Len(s.trace) = 3
      [] s.pc = "fallback" -> s.trace # <<>> /\ Last(s.trace).op # "fallback"
      [] OTHER -> TRUE

\* C14: in a call of index.ts the cache read comes only after the path
\* matched, the registry call only after the read returned without a
\* version, the cache write only after the registry answered with success
\* and a version, and the response only when all of them are over: every
\* operation starts when the one before it has returned, and nothing
\* follows the response.
C14_StepsInOrder ==
    \A r \in Reqs :
        LET s == h[r]
        IN  s.variant = "index" =>
                /\ \A i \in DOMAIN s.trace : InOrder(s, i)
                /\ Waiting(s)
                /\ s.pc # "done" => s.response = NoResponse
                /\ s.pc = "done" => ~ENABLED Step(r)
                /\ (s.pc = "done" /\ s.response.kind = "redirect") =>
                       \A i \in DOMAIN s.trace : s.trace[i].ok

\* C14 witness: a call that went through read, registry call, parse and
\* write, and then answered with a redirect
C14_Witness ==
    \E r \in Reqs :
        /\ Finished(r)
        /\ h[r].variant = "index"
        /\ Len(h[r].trace) = 4
        /\ h[r].trace[4].op = "kv.put" /\ h[r].trace[4].ok
        /\ h[r].response.kind = "redirect"

\* C15: in index.ts every redirect issued after a cache miss is preceded,
\* in the same request, by a successful put of (package name, the version
\* of the redirect) with a time-to-live of 600; and a request whose put
\* threw ends in pass-through with one fallback call.
C15_RedirectAfterMissFollowsPut ==
    \A r \in Reqs :
        LET s == h[r]
        IN  (/\ Finished(r)
             /\ s.variant = "index"
             /\ s.trace # <<>>
             /\ s.trace[1].op = "kv.get" /\ s.trace[1].ok /\ ~Truthy(s.trace[1].val)) =>
                /\ s.response.kind = "redirect" =>
                       \E i \in DOMAIN s.trace :
                           s.trace[i] = Ev("kv.put", s.packageName, s.version, 600, TRUE)
                /\ PutThrew(s) =>
                       /\ s.response.kind # "redirect"
                       /\ CountOp(s.trace, "fallback") = 1

---------------------------------------------------------------------------
(* C16 *)
(* Concurrent calls: every slot takes one request, at any time, and the    *)
(* calls interleave at their awaits on the one store.  The store starts    *)
(* with entries the registry returned earlier.                             *)

ConcUrls ==
    {[pathname |-> p, query |-> Null, hash |-> Null] : p \in {Slash \o Asar, Slash \o PkgB \o Slash}}

\* versions the registry returned before the calls began
EarlierVersions == {V500}

ConcInit ==
    /\ kv \in [KvKeys -> {NoEntry} \cup {Entry(v, ExpirationTtl) : v \in EarlierVersions}]
    /\ h = [r \in Reqs |-> Idle]

ConcBegin(r) == \E u \in ConcUrls, variant \in Variants : Begin(r, u, variant)

ConcNext ==
    \/ \E r \in Reqs :
           \/ ConcBegin(r)
           \/ PrePut(r)
           \/ KvGet(r)
           \/ NpmFetch(r)
           \/ Json(r)
           \/ KvPut(r)
           \/ Fallback(r)
    \/ \E k \in KvKeys : Expire(k)

SpecConc == ConcInit /\ [][ConcNext]_vars

\* the cache read of this request returned val for package p
CacheGave(s, p, val) ==
    \E i \in DOMAIN s.trace : s.trace[i] = Ev("kv.get", p, val, 0, TRUE) /\ Truthy(val)

\* C16: under every interleaving, each cache entry p -> v holds a version
\* the registry returned for p (before the calls began, or to one of
\* them); each package redirect for p carries a version its request read
\* from the entry of p or got from the registry for p; and a request for p
\* reads and writes no entry but that of p.
C16_EntriesAndRedirectsFromRegistry ==
    /\ \A p \in KvKeys :
           kv[p].present =>
               \/ kv[p].value \in EarlierVersions
               \/ \E r \in Reqs : h[r].packageName = p /\ RegistryGave(h[r], Str(kv[p].value))
    /\ \A r \in Reqs :
           LET s == h[r]
           IN  /\ (Finished(r) /\ IsPackageRedirect(s.response)) =>
                      \E v \in EarlierVersions \cup NpmVersions :
                          /\ s.response.location = PackageLocation(NameOf(s.url.pathname), v, s.url)
                          /\ \/ CacheGave(s, NameOf(s.url.pathname), Str(v))
                             \/ RegistryGave(s, Str(v))
               /\ \A i \in DOMAIN s.trace :
                      s.trace[i].op \in {"kv.get", "kv.put"} =>
                          s.trace[i].key = NameOf(s.url.pathname)

---------------------------------------------------------------------------
(* C17 *)
(* The target of a package redirect, requested in turn: the handler is     *)
(* entered with the URL that lines 64-70 build for a package name and a    *)
(* version.                                                                *)

NameTokens == {Latest, <<"a">>, <<"v">>}
VersionTokens == {Latest, <<"1">>, <<".">>}

Pieces(tokens) == {Flat(ts) : ts \in UNION {[1..k -> tokens] : k \in 1..MaxPieces}}

FollowNames == Pieces(NameTokens)
FollowVersions == Pieces(VersionTokens)

FollowBegin(r) ==
    /\ \A q \in Reqs : h[q].pc = "idle"
    /\ \E n \in FollowNames, v \in FollowVersions, variant \in Variants :
           Begin(r, RedirectUrl(n, Str(v), NoUrl), variant)

FollowNext == \E r \in Reqs : FollowBegin(r) \/ Abort(r)

SpecFollow == Init /\ [][FollowNext]_vars

\* C17: the path /n/v<v>/index.html of a package redirect, for a non-empty
\* name n and a non-empty version v without "/", is no package path: the
\* matcher gives no match, the request for it is answered with the root
\* redirect and starts no lookup.
C17_RedirectTargetIsNoPackagePath ==
    \A r \in Reqs :
        h[r].pc # "idle" =>
            /\ \E n \in FollowNames, v \in FollowVersions :
                   h[r].url.pathname = Slash \o n \o <<"/", "v">> \o v \o IndexHtml
            /\ h[r].pc = "done"
            /\ h[r].response.location = RootLocation
            /\ h[r].packageName = <<>>
            /\ h[r].trace = <<>>

\* C17 witness: the target /latest/vlatest/index.html was requested and
\* answered with the root redirect
C17_Witness ==
    \E r \in Reqs :
        /\ h[r].url.pathname = Slash \o Latest \o <<"/", "v">> \o Latest \o IndexHtml
        /\ h[r].pc = "done"
        /\ h[r].response.location = RootLocation

=============================================================================
